---- MODULE Spec2Model ----
(***************************************************************************)
(* Family-tree editor: the tree transform library, the tree/flat codec     *)
(* and the synchronization controller of src/src/FamilyTree.tsx (the       *)
(* Firebase revision, lines 1037-2512) with the persistence collaborator   *)
(* of src/unnamed/part_002 (firebaseClient.ts).                            *)
(*                                                                         *)
(* A Person is a record with the fields id and name and the OPTIONAL       *)
(* fields collapsed (the source's _collapsed) and children: an optional    *)
(* field that is absent in the source is absent from the record's DOMAIN.  *)
(* A field holding undefined counts as absent.                             *)
(***************************************************************************)
EXTENDS Integers, Sequences, FiniteSets, TLC

VARIABLES
    isAdmin,        \* prop isAdmin of the component (fixed for a session)
    mounted,        \* the component is mounted: its state exists and its effects run
    viewRootId,     \* useState viewRootId: the id of the node the view starts at
    data,           \* useState data: the held tree
    loading,        \* useState loading
    firebaseStatus, \* useState firebaseStatus: "checking" | "connected" | "error"
    loadError,      \* useState loadError: a message or Null
    store,          \* the family_tree collection: doc id -> fields
    saveTimer,      \* saveTimeoutRef: <<>> or <<tree captured by the pending callback>>
    tasks,          \* the async functions in flight, each at its next await
    alert,          \* the last alert() message, "none" before the first
    io,             \* the persistence call issued by the last step
    call,           \* the handler invoked by the last step
    nFail,          \* persistence calls that have thrown so far
    nEdits,         \* edit-handler invocations so far
    nToggles,       \* toggleCollapse invocations so far
    nSaves,         \* debounced saves started so far
    caps,           \* the budgets of the run: [edits, toggles, saves, tasks, fails]
    t, flat, rebuilt, cpc   \* the codec harness: input tree, records, rebuilt tree

vars == <<isAdmin, mounted, viewRootId, data, loading, firebaseStatus, loadError, store, saveTimer,
          tasks, alert, io, call, nFail, nEdits, nToggles, nSaves, caps,
          t, flat, rebuilt, cpc>>

ctlVars == <<isAdmin, mounted, viewRootId, data, loading, firebaseStatus, loadError, store, saveTimer,
             tasks, alert, io, call, nFail, nEdits, nToggles, nSaves, caps>>

codecVars == <<t, flat, rebuilt, cpc>>

-----------------------------------------------------------------------------
(* Bounds *)

\* frames the engine's call stack holds before it throws RangeError
StackLimit == 10
\* nodes of the enumerated input trees of the codec harness
MaxNodes == 3
\* persistence calls that may throw in one run
MaxFailures == 1
\* edit-handler invocations (addChild, editNode, deleteNode, addParentAbove) in one run
MaxEdits == 1
\* toggleCollapse invocations in one run
MaxToggles == 1
\* debounced full-tree saves started in one run
MaxSaves == 1
\* async functions in flight at once
MaxTasks == 2

\* record sets handed to buildTree: entries naming a missing record, records
\* missing from the set, records with a null parent reference
MaxDangling == 1

MaxDropped == 1

MaxRoots == 2

-----------------------------------------------------------------------------
(* Values *)

\* JavaScript null, for parent_id and loadError
Null == "null"

\* JavaScript null where a Person is expected
NoPerson == [null |-> TRUE]

\* the RangeError (maximum call stack size exceeded) a runaway recursion throws
RangeError == [error |-> "RangeError"]

IsError(x) == "error" \in DOMAIN x

IsNull(x) == "null" \in DOMAIN x

Has(n, f) == f \in DOMAIN n

\* { ...n, f: v }
With(n, f, v) == [k \in DOMAIN n \cup {f} |-> IF k = f THEN v ELSE n[k]]

\* n.children ?? []
kids(n) == IF Has(n, "children") THEN n.children ELSE <<>>

\* n._collapsed ?? false ; n._collapsed || false
flag(n) == IF Has(n, "collapsed") THEN n.collapsed ELSE FALSE

Range(s) == {s[i] : i \in 1..Len(s)}

RECURSIVE Concat(_)
Concat(ss) == IF ss = <<>> THEN <<>> ELSE Head(ss) \o Concat(Tail(ss))

\* the ids of the nodes of a tree
RECURSIVE idsOf(_)
idsOf(n) == {n.id} \cup UNION {idsOf(kids(n)[i]) : i \in 1..Len(kids(n))}

initialData ==
    [id |-> "1", name |-> "Great-Great-Grandparent", children |-> <<
      [id |-> "2", name |-> "Great-Grandparent", children |-> <<
        [id |-> "3", name |-> "Grandparent", children |-> <<
          [id |-> "4", name |-> "Parent 1", children |-> <<
             [id |-> "5", name |-> "Child 1.1"],
             [id |-> "6", name |-> "Child 1.2"] >>],
          [id |-> "7", name |-> "Parent 2", children |-> <<
             [id |-> "8", name |-> "Child 2.1"] >>] >>] >>] >>]

-----------------------------------------------------------------------------
(* Tree transform library *)

\* a toggle callback that collapses the node whatever its flag was
toggleFnCollapse(n, id) ==
    IF n.id = id THEN With(n, "collapsed", TRUE) ELSE n

\* the callbacks handed to mapTree and updateTree, as data: [op, id, ...]
toggleFn(n, id) ==
    IF n.id = id THEN With(n, "collapsed", ~flag(n)) ELSE n

\* the addChild callback with the new child put in front of the others
addChildFnFirst(n, id, child) ==
    IF n.id = id THEN With(n, "children", <<child>> \o kids(n)) ELSE n

addChildFn(n, id, child) ==
    IF n.id = id THEN With(n, "children", Append(kids(n), child)) ELSE n

editFn(n, id, name) ==
    IF n.id = id THEN With(n, "name", name) ELSE n

wrapFn(n, id, nid, name) ==
    IF n.id = id THEN [id |-> nid, name |-> name, children |-> <<n>>] ELSE n

deleteFn(n, id) ==
    IF n.id = id THEN NoPerson ELSE n

applyFn(fn, n) ==
    CASE fn.op = "toggle"   -> toggleFn(n, fn.id)
      [] fn.op = "addChild" -> addChildFn(n, fn.id, fn.child)
      [] fn.op = "edit"     -> editFn(n, fn.id, fn.name)
      [] fn.op = "wrap"     -> wrapFn(n, fn.id, fn.nid, fn.name)
      [] fn.op = "delete"   -> deleteFn(n, fn.id)
      [] OTHER              -> n

\* mapTree at call depth d: RangeError once the stack is exhausted
RECURSIVE mapTreeAt(_, _, _)
mapTreeAt(p, fn, d) ==
    IF d > StackLimit THEN RangeError
    ELSE LET next == applyFn(fn, p) IN
         IF ~Has(next, "children") THEN next
         ELSE LET cs == [i \in 1..Len(next.children) |->
                            mapTreeAt(next.children[i], fn, d + 1)] IN
              IF \E i \in 1..Len(cs) : IsError(cs[i]) THEN RangeError
              ELSE [next EXCEPT !.children = cs]

\* mapTree that builds its result from id, name and children instead of
\* spreading the callback's result
mapTreeFields(p, fn) ==
    LET res == mapTreeAt(p, fn, 1) IN
    IF IsError(res) \/ IsNull(res) THEN res
    ELSE [k \in DOMAIN res \ {"collapsed"} |-> res[k]]

mapTree(p, fn) == mapTreeAt(p, fn, 1)

\* updateTree that applies fn to the node it is given and not to its children
updateTreeShallow(p, fn) ==
    LET res == applyFn(fn, p) IN
    IF IsNull(res) THEN NoPerson ELSE res

RECURSIVE updateTree(_, _)
updateTree(p, fn) ==
    LET res == applyFn(fn, p) IN
    IF IsNull(res) THEN NoPerson
    ELSE IF ~Has(res, "children") THEN res
    ELSE LET cs == [i \in 1..Len(res.children) |-> updateTree(res.children[i], fn)] IN
         [res EXCEPT !.children = SelectSeq(cs, LAMBDA x : ~IsNull(x))]

RECURSIVE findNode(_, _)
findNode(node, id) ==
    IF node.id = id THEN node
    ELSE LET RECURSIVE loop(_)
             loop(i) == IF i > Len(kids(node)) THEN NoPerson
                        ELSE LET found == findNode(kids(node)[i], id) IN
                             IF ~IsNull(found) THEN found ELSE loop(i + 1)
         IN loop(1)

\* getPathToNode that returns from inside its loop: only the first child is searched
RECURSIVE getPathToNodeFirstChild(_, _)
getPathToNodeFirstChild(node, id) ==
    IF node.id = id THEN <<node>>
    ELSE IF Len(kids(node)) = 0 THEN <<>>
    ELSE LET path == getPathToNodeFirstChild(kids(node)[1], id) IN
         IF Len(path) > 0 THEN <<node>> \o path ELSE <<>>

RECURSIVE getPathToNode(_, _)
getPathToNode(node, id) ==
    IF node.id = id THEN <<node>>
    ELSE LET RECURSIVE loop(_)
             loop(i) == IF i > Len(kids(node)) THEN <<>>
                        ELSE LET path == getPathToNode(kids(node)[i], id) IN
                             IF Len(path) > 0 THEN <<node>> \o path ELSE loop(i + 1)
         IN loop(1)

-----------------------------------------------------------------------------
(* Tree/flat codec *)

\* flattenTree that does not carry the collapsed flag over
RECURSIVE flattenTreeNoFlag(_, _)
flattenTreeNoFlag(node, parentId) ==
    << [id        |-> node.id,
        name      |-> node.name,
        parent_id |-> parentId,
        children  |-> [i \in 1..Len(kids(node)) |-> kids(node)[i].id],
        collapsed |-> FALSE] >>
    \o Concat([i \in 1..Len(kids(node)) |-> flattenTreeNoFlag(kids(node)[i], node.id)])

\* flattenTree that hands its own parentId down instead of node.id
RECURSIVE flattenTreeSameParent(_, _)
flattenTreeSameParent(node, parentId) ==
    << [id        |-> node.id,
        name      |-> node.name,
        parent_id |-> parentId,
        children  |-> [i \in 1..Len(kids(node)) |-> kids(node)[i].id],
        collapsed |-> flag(node)] >>
    \o Concat([i \in 1..Len(kids(node)) |-> flattenTreeSameParent(kids(node)[i], parentId)])

RECURSIVE flattenTree(_, _)
flattenTree(node, parentId) ==
    << [id        |-> node.id,
        name      |-> node.name,
        parent_id |-> parentId,
        children  |-> [i \in 1..Len(kids(node)) |-> kids(node)[i].id],
        collapsed |-> flag(node)] >>
    \o Concat([i \in 1..Len(kids(node)) |-> flattenTree(kids(node)[i], node.id)])

\* linked that stops resolving a children list at its first unresolvable id
RECURSIVE linkedTruncate(_, _, _)
linkedTruncate(flatData, id, fuel) ==
    LET same == {i \in 1..Len(flatData) : flatData[i].id = id}
        item == flatData[CHOOSE i \in same : \A j \in same : j <= i]
        with == {i \in same : Has(flatData[i], "children")}
        have == {flatData[i].id : i \in 1..Len(flatData)}
        all  == IF with = {} THEN <<>>
                ELSE flatData[CHOOSE i \in with : \A j \in with : j <= i].children
        bad  == {k \in 1..Len(all) : all[k] \notin have}
        cids == IF bad = {} THEN all
                ELSE SubSeq(all, 1, (CHOOSE k \in bad : \A j \in bad : k <= j) - 1)
        nodeMap == [childId \in have |-> linkedTruncate(flatData, childId, fuel - 1)]
    IN [id        |-> item.id,
        name      |-> item.name,
        collapsed |-> flag(item),
        children  |-> IF fuel = 0 THEN <<>>
                      ELSE [i \in 1..Len(cids) |-> nodeMap[cids[i]]]]

\* nodeMap.get(id) after both passes, unfolded to depth fuel. Pass 1: a later
\* record of the same id overwrites the stub of an earlier one (Map.set).
\* Pass 2: every record that has a children list assigns the node's children,
\* so the last such record decides; ids without a record are filtered out.
RECURSIVE linked(_, _, _)
linked(flatData, id, fuel) ==
    LET same == {i \in 1..Len(flatData) : flatData[i].id = id}
        item == flatData[CHOOSE i \in same : \A j \in same : j <= i]
        with == {i \in same : Has(flatData[i], "children")}
        have == {flatData[i].id : i \in 1..Len(flatData)}
        cids == IF with = {} THEN <<>>
                ELSE SelectSeq(flatData[CHOOSE i \in with : \A j \in with : j <= i].children,
                               LAMBDA childId : childId \in have)
        nodeMap == [childId \in have |-> linked(flatData, childId, fuel - 1)]
    IN [id        |-> item.id,
        name      |-> item.name,
        collapsed |-> flag(item),
        children  |-> IF fuel = 0 THEN <<>>
                      ELSE [i \in 1..Len(cids) |-> nodeMap[cids[i]]]]

\* buildTree that falls back to the first record when no record has a null parent
buildTreeFirstRecord(flatData) ==
    IF Len(flatData) = 0 THEN NoPerson
    ELSE LET roots == {i \in 1..Len(flatData) : flatData[i].parent_id = Null}
             first == IF roots = {} THEN 1 ELSE CHOOSE i \in roots : \A j \in roots : i <= j
         IN linked(flatData, flatData[first].id, Len(flatData))

buildTree(flatData) ==
    IF Len(flatData) = 0 THEN NoPerson
    ELSE LET roots == {i \in 1..Len(flatData) : flatData[i].parent_id = Null} IN
         IF roots = {} THEN NoPerson
         ELSE LET first == CHOOSE i \in roots : \A j \in roots : i <= j IN
              linked(flatData, flatData[first].id, Len(flatData))

-----------------------------------------------------------------------------
(* Codec harness: the input trees and the steps that apply the codec *)

IdPool == <<"1", "2", "3", "4", "5">>

\* a node of id r over the child sequence f: without the collapsed flag, with
\* it set and with it cleared, and a leaf with and without a children field
NodeVariants(r, f) ==
    LET cols == { [id |-> r, name |-> "Ann"],
                  [id |-> r, name |-> "Bob", collapsed |-> TRUE],
                  [id |-> r, name |-> "Cy", collapsed |-> FALSE] }
    IN {With(n, "children", f) : n \in cols} \cup (IF f = <<>> THEN cols ELSE {})

\* the one-node trees the harness starts from, and the sample tree
InputTrees ==
    {initialData} \cup
    UNION {NodeVariants(IdPool[i], <<>>) : i \in 1..MaxNodes}

CodecInit ==
    /\ t \in InputTrees
    /\ flat = <<>>
    /\ rebuilt = NoPerson
    /\ cpc = "input"

\* the input grows by one leaf, of any spelling, appended under any node
Grow ==
    /\ cpc = "input"
    /\ Cardinality(idsOf(t)) < MaxNodes
    /\ \E parent \in idsOf(t), i \in 1..MaxNodes :
         /\ IdPool[i] \notin idsOf(t)
         /\ \E leaf \in NodeVariants(IdPool[i], <<>>) :
              t' = mapTree(t, [op |-> "addChild", id |-> parent, child |-> leaf])
    /\ UNCHANGED <<flat, rebuilt, cpc>>
    /\ UNCHANGED ctlVars

Flatten ==
    /\ cpc = "input"
    /\ flat' = flattenTree(t, Null)
    /\ cpc' = "flat"
    /\ UNCHANGED <<t, rebuilt>>
    /\ UNCHANGED ctlVars

Build ==
    /\ cpc = "flat"
    /\ rebuilt' = buildTree(flat)
    /\ cpc' = "built"
    /\ UNCHANGED <<t, flat>>
    /\ UNCHANGED ctlVars

\* the callbacks the library harness hands to mapTree and to updateTree: the
\* identity, the handlers' callbacks, on a node that is there or not
MapFns ==
    { [op |-> "identity"] }
    \cup { [op |-> "toggle", id |-> i] : i \in {"1", "2", "99"} }
    \cup { [op |-> "edit", id |-> i, name |-> "Zed"] : i \in {"2", "99"} }

UpdateFns ==
    { [op |-> "identity"] }
    \cup { [op |-> "delete", id |-> i] : i \in {"1", "2", "99"} }

\* the ids the harness looks up: the root, inner nodes, a leaf of the sample
\* tree, an id no node has
FindIds == {"1", "2", "3", "8", "99"}

MapTree ==
    /\ cpc = "input"
    /\ \E fn \in MapFns :
         /\ rebuilt' = mapTree(t, fn)
         /\ call' = [op |-> "mapTree", id |-> Null, fn |-> fn]
    /\ cpc' = "mapped"
    /\ UNCHANGED <<t, flat>>
    /\ UNCHANGED <<isAdmin, mounted, viewRootId, data, loading, firebaseStatus, loadError,
                   store, saveTimer, tasks, alert, io, nFail, nEdits, nToggles, nSaves, caps>>

UpdateTree ==
    /\ cpc = "input"
    /\ \E fn \in UpdateFns :
         /\ rebuilt' = updateTree(t, fn)
         /\ call' = [op |-> "updateTree", id |-> Null, fn |-> fn]
    /\ cpc' = "updated"
    /\ UNCHANGED <<t, flat>>
    /\ UNCHANGED <<isAdmin, mounted, viewRootId, data, loading, firebaseStatus, loadError,
                   store, saveTimer, tasks, alert, io, nFail, nEdits, nToggles, nSaves, caps>>

\* findNode and getPathToNode of the same id: the node in rebuilt, the path in flat
Find ==
    /\ cpc = "input"
    /\ \E id \in FindIds :
         /\ rebuilt' = findNode(t, id)
         /\ flat' = getPathToNode(t, id)
         /\ call' = [op |-> "findNode", id |-> id]
    /\ cpc' = "found"
    /\ UNCHANGED t
    /\ UNCHANGED <<isAdmin, mounted, viewRootId, data, loading, firebaseStatus, loadError,
                   store, saveTimer, tasks, alert, io, nFail, nEdits, nToggles, nSaves, caps>>

\* the budgets of a run under Spec
Caps ==
    [edits |-> MaxEdits, toggles |-> MaxToggles, saves |-> MaxSaves,
     tasks |-> MaxTasks, fails |-> MaxFailures]

CtlIdle ==
    /\ isAdmin = FALSE
    /\ mounted = FALSE
    /\ viewRootId = "3"
    /\ data = initialData
    /\ loading = FALSE
    /\ firebaseStatus = "checking"
    /\ loadError = Null
    /\ store = <<>>
    /\ saveTimer = <<>>
    /\ tasks = <<>>
    /\ alert = "none"
    /\ io = [op |-> "none", id |-> Null]
    /\ call = [op |-> "none", id |-> Null]
    /\ nFail = 0
    /\ nEdits = 0
    /\ nToggles = 0
    /\ nSaves = 0
    /\ caps = Caps

InitCodec == CodecInit /\ CtlIdle

NextCodec == Grow \/ Flatten \/ Build

SpecCodec == InitCodec /\ [][NextCodec]_vars

NextLib == Grow \/ MapTree \/ UpdateTree \/ Find

SpecLib == InitCodec /\ [][NextLib]_vars

-----------------------------------------------------------------------------
(* Persistence collaborator: the family_tree collection of firebaseClient.ts *)

\* every document id of the model, in the order getDocs returns documents
\* (by document id)
IdOrder == <<"0a", "0b", "1", "2", "3", "4", "5", "6", "7", "8", "99", "k7", "zz">>

\* the ids genId may return, one per edit of a run
FreshSeq == <<"0a", "k7", "zz", "0b">>

FreshPool == {FreshSeq[i] : i \in 1..(MaxEdits + 1)}

\* setDoc(..., { merge: true }) and updateDoc: the given fields replace the old ones
Merge(old, new) ==
    [k \in DOMAIN old \cup DOMAIN new |-> IF k \in DOMAIN new THEN new[k] ELSE old[k]]

getAll(s) ==
    LET ids == SelectSeq(IdOrder, LAMBDA i : i \in DOMAIN s) IN
    [k \in 1..Len(ids) |-> With(s[ids[k]], "id", ids[k])]

getById(s, id) ==
    IF id \in DOMAIN s THEN With(s[id], "id", id) ELSE NoPerson

\* a merge in which the fields already stored win over the given ones
upsertKeepStored(s, id, fields) ==
    With(s, id, IF id \in DOMAIN s THEN Merge(fields, s[id]) ELSE fields)

upsert(s, id, fields) ==
    With(s, id, IF id \in DOMAIN s THEN Merge(s[id], fields) ELSE fields)

\* updateDoc rejects when the document does not exist
updateOk(s, id) == id \in DOMAIN s

update(s, id, fields) ==
    With(s, id, Merge(s[id], fields))

delete(s, id) ==
    [k \in DOMAIN s \ {id} |-> s[k]]

\* docFields that leaves the children list out
docFieldsNoChildren(person) ==
    [name      |-> person.name,
     parent_id |-> person.parent_id,
     children  |-> <<>>,
     collapsed |-> person.collapsed]

\* the four fields every upsert of a flat record passes
docFields(person) ==
    [name      |-> person.name,
     parent_id |-> person.parent_id,
     children  |-> person.children,
     collapsed |-> person.collapsed]

\* the collection holding exactly the given flat records
storeOf(flatData) ==
    [id \in {flatData[i].id : i \in 1..Len(flatData)} |->
        docFields(flatData[CHOOSE i \in 1..Len(flatData) : flatData[i].id = id])]

-----------------------------------------------------------------------------
(* Synchronization controller *)

NoCall == [op |-> "none", id |-> Null]

Io(op, id) == [op |-> op, id |-> id]

IsWrite(c) == c.op \in {"upsert", "update", "delete"}

\* a state setter called from an async function: React drops the update when
\* the component has been unmounted
SetState(new, old) == IF mounted THEN new ELSE old

\* a debounced-save effect that does not test the loading flag
SchedWhileLoading(d, l, s) == IF mounted /\ s = "connected" THEN <<d>> ELSE <<>>

\* a debounced-save effect that leaves a pending timer, and the tree its
\* callback captured, in place
SchedKeep(d, l, s) ==
    IF mounted /\ ~l /\ s = "connected"
    THEN (IF saveTimer # <<>> THEN saveTimer ELSE <<d>>)
    ELSE <<>>

\* the debounced-save effect: its cleanup clears the pending timer, and it
\* sets a new one, whose callback holds the tree of this render, when the
\* component is not loading and the backend is connected; no effect runs for
\* a component that has been unmounted
Sched(d, l, s) == IF mounted /\ ~l /\ s = "connected" THEN <<d>> ELSE <<>>

RemoveAt(s, i) == [k \in 1..(Len(s) - 1) |-> IF k < i THEN s[k] ELSE s[k + 1]]

\* the call a task is waiting for is a write: setDoc, updateDoc or deleteDoc
PendingWrite(tk) ==
    CASE tk.kind = "load"       -> tk.pc = "seed"
      [] tk.kind = "deleteNode" -> \/ tk.pc = "fix"
                                   \/ tk.pc = "cascade" /\ tk.stack[Len(tk.stack)].got
      [] OTHER                  -> TRUE

\* tasks is kept in the order in which the pending calls were issued. The
\* client sends its writes over one stream, so they are committed and
\* acknowledged in the order of issue: a write returns only when no write
\* issued before it is still pending. Reads return at any time.
Turn(i) ==
    PendingWrite(tasks[i]) => \A j \in 1..(i - 1) : ~PendingWrite(tasks[j])

\* task i went on to its next call: it is the last one issued
Reissued(i, task) == Append(RemoveAt(tasks, i), task)

\* the id of a record that is not there
MissingId == "zz"

\* entries that name MissingId, over all children lists of the records
Dangling(flatData) ==
    Len(Concat([k \in 1..Len(flatData) |->
                  SelectSeq(flatData[k].children, LAMBDA c : c = MissingId)]))

Roots(flatData) == {k \in 1..Len(flatData) : flatData[k].parent_id = Null}

\* a children list gets an entry that names no record, at any position
Dangle ==
    /\ cpc \in {"flat", "edited"}
    /\ Dangling(flat) < MaxDangling
    /\ \E k \in 1..Len(flat), pos \in 0..MaxNodes :
         /\ pos <= Len(flat[k].children)
         /\ flat' = [flat EXCEPT ![k].children =
                        SubSeq(@, 1, pos) \o <<MissingId>> \o SubSeq(@, pos + 1, Len(@))]
    /\ cpc' = "edited"
    /\ UNCHANGED <<t, rebuilt>>
    /\ UNCHANGED ctlVars

\* a record is missing from the set that was read
Drop ==
    /\ cpc \in {"flat", "edited"}
    /\ Len(flat) + MaxDropped > Cardinality(idsOf(t))
    /\ \E k \in 1..Len(flat) : flat' = RemoveAt(flat, k)
    /\ cpc' = "edited"
    /\ UNCHANGED <<t, rebuilt>>
    /\ UNCHANGED ctlVars

\* a second record carries a null parent reference
Detach ==
    /\ cpc \in {"flat", "edited"}
    /\ Cardinality(Roots(flat)) < MaxRoots
    /\ \E k \in 1..Len(flat) :
         /\ flat[k].parent_id # Null
         /\ flat' = [flat EXCEPT ![k].parent_id = Null]
    /\ cpc' = "edited"
    /\ UNCHANGED <<t, rebuilt>>
    /\ UNCHANGED ctlVars

BuildRecords ==
    /\ cpc = "edited"
    /\ rebuilt' = buildTree(flat)
    /\ cpc' = "rebuilt"
    /\ UNCHANGED <<t, flat>>
    /\ UNCHANGED ctlVars

NextRecords ==
    \/ Grow
    \/ Flatten
    \/ Build
    \/ Dangle
    \/ Drop
    \/ Detach
    \/ BuildRecords

SpecRecords == InitCodec /\ [][NextRecords]_vars

\* ids a pending task still holds (its snapshot, its new child, its records)
taskIds(tk) ==
    (IF Has(tk, "prev") THEN idsOf(tk.prev) ELSE {})
    \cup (IF Has(tk, "upd") THEN idsOf(tk.upd) ELSE {})
    \cup (IF Has(tk, "todo") THEN {tk.todo[i].id : i \in 1..Len(tk.todo)} ELSE {})

UsedIds ==
    idsOf(data) \cup DOMAIN store \cup UNION {taskIds(tasks[i]) : i \in 1..Len(tasks)}

\* genId that numbers the new node after the count of nodes held
genIdByCount == {IdOrder[2 + Cardinality(idsOf(data))]}

\* genId(): a random 8-character token, taken not to collide with an id in use
genId == FreshPool \ UsedIds

\* the tree is on screen: neither the spinner nor the error screen is rendered
TreeShown == mounted /\ ~loading /\ loadError = Null

\* the ids a handler can be invoked with: the root, an inner node, a leaf,
\* an id no node has
TargetIds == {"1", "4", "6", "99"}

\* what prompt() returns: a name typed in (an empty answer makes the handler return)
\* the ids toggleCollapse is invoked with: a node with children, an id no node has
ToggleIds == {"4", "99"}

EditNames == {"Zed"}

ErrMsg == "backend error"

\* the stores a session can find at startup: none, the sample, a record set
\* without a root, a two-generation family
InitStores ==
    { <<>>,
      storeOf(flattenTree(initialData, Null)),
      storeOf(<< [id |-> "2", name |-> "Ann", parent_id |-> "1",
                  children |-> <<"3">>, collapsed |-> FALSE],
                 [id |-> "3", name |-> "Bob", parent_id |-> "2",
                  children |-> <<>>, collapsed |-> TRUE] >>),
      storeOf(flattenTree([id |-> "4", name |-> "Ann", collapsed |-> TRUE,
                           children |-> << [id |-> "6", name |-> "Bob"] >>], Null)) }

CodecIdle ==
    /\ t = initialData
    /\ flat = <<>>
    /\ rebuilt = NoPerson
    /\ cpc = "off"

\* the state after the first render and the mount effect, which has called
\* loadDataFromFirebase up to its first await
Init ==
    /\ isAdmin \in BOOLEAN
    /\ mounted = TRUE
    /\ viewRootId = "3"
    /\ data = initialData
    /\ loading = TRUE
    /\ firebaseStatus = "checking"
    /\ loadError = Null
    /\ store \in InitStores
    /\ saveTimer = <<>>
    /\ tasks = << [kind |-> "load", pc |-> "test", todo |-> <<>>] >>
    /\ alert = "none"
    /\ io = NoCall
    /\ call = NoCall
    /\ nFail = 0
    /\ nEdits = 0
    /\ nToggles = 0
    /\ nSaves = 0
    /\ caps = Caps
    /\ CodecIdle

\* a persistence call either returns (ok) or throws, within the failure budget
Outcome(ok) == ok \/ nFail < caps.fails

Count(ok) == IF ok THEN nFail ELSE nFail + 1

(* ---- load, seed, retry ---- *)

\* catch + finally of loadDataFromFirebase
LoadFailed(i) ==
    /\ firebaseStatus' = SetState("error", firebaseStatus)
    /\ loadError' = SetState(ErrMsg, loadError)
    /\ loading' = SetState(FALSE, loading)
    /\ tasks' = RemoveAt(tasks, i)
    /\ saveTimer' = <<>>
    /\ UNCHANGED <<data, store>>

\* one await of loadDataFromFirebase / initializeFirebaseData
loadDataFromFirebase ==
    \E i \in 1..Len(tasks), ok \in BOOLEAN :
      LET tk == tasks[i] IN
      /\ tk.kind = "load"
      /\ Turn(i)
      /\ Outcome(ok)
      /\ nFail' = Count(ok)
      /\ call' = NoCall
      /\ UNCHANGED <<isAdmin, mounted, viewRootId, alert, nEdits, nToggles, nSaves, caps, codecVars>>
      /\ CASE tk.pc = "test" ->
                /\ io' = Io("getAll", Null)
                /\ IF ok
                   THEN /\ firebaseStatus' = SetState("connected", firebaseStatus)
                        /\ tasks' = Reissued(i, [tk EXCEPT !.pc = "get"])
                        /\ saveTimer' = Sched(data, loading, "connected")
                        /\ UNCHANGED <<data, loading, loadError, store>>
                   ELSE LoadFailed(i)
           [] tk.pc = "get" ->
                /\ io' = Io("getAll", Null)
                /\ IF ~ok THEN LoadFailed(i)
                   ELSE \E firebaseData \in {getAll(store)} :
                        LET treeData == buildTree(firebaseData)
                        IN IF Len(firebaseData) > 0
                           THEN /\ data' = SetState(IF IsNull(treeData) THEN data
                                                         ELSE treeData, data)
                                /\ loading' = SetState(FALSE, loading)
                                /\ tasks' = RemoveAt(tasks, i)
                                /\ saveTimer' = Sched(data', FALSE, firebaseStatus)
                                /\ UNCHANGED <<firebaseStatus, loadError, store>>
                           ELSE /\ tasks' = Reissued(i,
                                       [kind |-> "load", pc |-> "seed",
                                        todo |-> flattenTree(initialData, Null)])
                                /\ UNCHANGED <<data, loading, firebaseStatus,
                                               loadError, store, saveTimer>>
           [] tk.pc = "seed" ->
                LET person == Head(tk.todo) IN
                /\ io' = Io("upsert", person.id)
                /\ IF ~ok
                   THEN /\ loadError' = SetState(ErrMsg, loadError)
                        /\ loading' = SetState(FALSE, loading)
                        /\ tasks' = RemoveAt(tasks, i)
                        /\ saveTimer' = Sched(data, FALSE, firebaseStatus)
                        /\ UNCHANGED <<data, firebaseStatus, store>>
                   ELSE /\ store' = upsert(store, person.id, docFields(person))
                        /\ IF Len(tk.todo) > 1
                           THEN /\ tasks' = Reissued(i, [tk EXCEPT !.todo = Tail(tk.todo)])
                                /\ UNCHANGED <<data, loading, firebaseStatus,
                                               loadError, saveTimer>>
                           ELSE /\ tasks' = Reissued(i,
                                       [kind |-> "load", pc |-> "test", todo |-> <<>>])
                                /\ loading' = SetState(TRUE, loading)
                                /\ loadError' = SetState(Null, loadError)
                                /\ firebaseStatus' = SetState("checking", firebaseStatus)
                                /\ saveTimer' = <<>>
                                /\ UNCHANGED data

\* the Retry button of the error screen: onClick={loadDataFromFirebase}
Retry ==
    /\ mounted
    /\ loadError # Null
    /\ ~loading
    /\ Len(tasks) < caps.tasks
    /\ loading' = TRUE
    /\ loadError' = Null
    /\ firebaseStatus' = "checking"
    /\ saveTimer' = <<>>
    /\ tasks' = Append(tasks, [kind |-> "load", pc |-> "test", todo |-> <<>>])
    /\ io' = NoCall
    /\ call' = Io("retry", Null)
    /\ UNCHANGED <<isAdmin, mounted, viewRootId, data, store, alert, nFail, nEdits, nToggles, nSaves, caps, codecVars>>

(* ---- debounced save ---- *)

\* the timer callback: saveDataToFirebase() up to its first await
TimerFires ==
    /\ saveTimer # <<>>
    /\ Len(tasks) < caps.tasks
    /\ nSaves < caps.saves
    /\ nSaves' = nSaves + 1
    /\ tasks' = Append(tasks, [kind |-> "save", n |-> nSaves + 1,
                                todo |-> flattenTree(saveTimer[1], Null)])
    /\ saveTimer' = <<>>
    /\ io' = NoCall
    /\ call' = NoCall
    /\ UNCHANGED <<isAdmin, mounted, viewRootId, data, loading, firebaseStatus, loadError, store,
                   alert, nFail, nEdits, nToggles, caps, codecVars>>

\* one await of saveDataToFirebase: the next record's upsert
saveDataToFirebase ==
    \E i \in 1..Len(tasks), ok \in BOOLEAN :
      LET tk == tasks[i]
          person == Head(tk.todo)
      IN
      /\ tk.kind = "save"
      /\ Turn(i)
      /\ Outcome(ok)
      /\ nFail' = Count(ok)
      /\ io' = Io("upsert", person.id)
      /\ call' = NoCall
      /\ store' = IF ok THEN upsert(store, person.id, docFields(person)) ELSE store
      /\ tasks' = IF ok /\ Len(tk.todo) > 1
                  THEN Reissued(i, [tk EXCEPT !.todo = Tail(tk.todo)])
                  ELSE RemoveAt(tasks, i)
      /\ UNCHANGED <<isAdmin, mounted, viewRootId, data, loading, firebaseStatus, loadError, saveTimer,
                     alert, nEdits, nToggles, nSaves, caps, codecVars>>

(* ---- edit handlers: the synchronous part, up to the first await ---- *)

Called(op, id, result) == [op |-> op, id |-> id, result |-> result]

\* a handler that returns before it touches anything
Returned(op, id, result) ==
    /\ nEdits < caps.edits
    /\ nEdits' = nEdits + 1
    /\ call' = Called(op, id, result)
    /\ io' = NoCall
    /\ UNCHANGED <<isAdmin, mounted, viewRootId, data, loading, firebaseStatus, loadError, store,
                   saveTimer, tasks, alert, nFail, nToggles, nSaves, caps, codecVars>>

\* setData(updatedData) followed by the handler's first await
Applied(op, id, updatedData, task) ==
    /\ call' = Called(op, id, "applied")
    /\ io' = NoCall
    /\ data' = updatedData
    /\ saveTimer' = Sched(updatedData, loading, firebaseStatus)
    /\ tasks' = Append(tasks, task)
    /\ nEdits' = nEdits + 1
    /\ UNCHANGED <<isAdmin, mounted, viewRootId, loading, firebaseStatus, loadError, store, alert,
                   nFail, nToggles, nSaves, caps, codecVars>>

CanEdit == nEdits < caps.edits /\ Len(tasks) < caps.tasks

\* toggleCollapse under a save effect that does not depend on data: the
\* pending timer is left as it is
toggleCollapseNoResched ==
    \E id \in ToggleIds :
      /\ TreeShown
      /\ nToggles < caps.toggles
      /\ data' = mapTree(data, [op |-> "toggle", id |-> id])
      /\ call' = Called("toggleCollapse", id, "applied")
      /\ io' = NoCall
      /\ nToggles' = nToggles + 1
      /\ UNCHANGED <<isAdmin, mounted, viewRootId, loading, firebaseStatus, loadError, store, tasks, saveTimer,
                     alert, nFail, nEdits, nSaves, caps, codecVars>>

toggleCollapse ==
    \E id \in ToggleIds :
      /\ TreeShown
      /\ nToggles < caps.toggles
      /\ data' = mapTree(data, [op |-> "toggle", id |-> id])
      /\ saveTimer' = Sched(data', loading, firebaseStatus)
      /\ call' = Called("toggleCollapse", id, "applied")
      /\ io' = NoCall
      /\ nToggles' = nToggles + 1
      /\ UNCHANGED <<isAdmin, mounted, viewRootId, loading, firebaseStatus, loadError, store, tasks,
                     alert, nFail, nEdits, nSaves, caps, codecVars>>

addChild ==
    \E id \in TargetIds, name \in EditNames :
      /\ TreeShown
      /\ IF ~isAdmin THEN Returned("addChild", id, "notAdmin")
         ELSE IF name = "" THEN Returned("addChild", id, "noName")
         ELSE /\ CanEdit
              /\ \E nid \in genId :
                   LET child == [id |-> nid, name |-> name, collapsed |-> FALSE]
                       updatedData == mapTree(data, [op |-> "addChild", id |-> id,
                                                     child |-> child])
                   IN Applied("addChild", id, updatedData,
                              [kind |-> "addChild", id |-> id, child |-> child,
                               prev |-> data, upd |-> updatedData, pc |-> "upsert"])

\* editNode without the admin check, as in the revisions before isAdmin existed
editNodeNoGuard ==
    \E id \in TargetIds, name \in EditNames :
      /\ TreeShown
      /\ CanEdit
      /\ LET updatedData == mapTree(data, [op |-> "edit", id |-> id, name |-> name])
         IN Applied("editNode", id, updatedData,
                    [kind |-> "editNode", id |-> id, name |-> name,
                     prev |-> data, upd |-> updatedData])

editNode ==
    \E id \in TargetIds, name \in EditNames :
      /\ TreeShown
      /\ IF ~isAdmin THEN Returned("editNode", id, "notAdmin")
         ELSE IF name = "" THEN Returned("editNode", id, "noName")
         ELSE /\ CanEdit
              /\ LET updatedData == mapTree(data, [op |-> "edit", id |-> id,
                                                   name |-> name])
                 IN Applied("editNode", id, updatedData,
                            [kind |-> "editNode", id |-> id, name |-> name,
                             prev |-> data, upd |-> updatedData])

\* updateTree(data, ...) || initialData
deleteNodeTree(d, id) ==
    LET res == updateTree(d, [op |-> "delete", id |-> id]) IN
    IF IsNull(res) THEN initialData ELSE res

\* a root test that never fires
isRootNever(previousData, id) == FALSE

\* previousData.id === id
isRoot(previousData, id) == previousData.id = id

deleteNode ==
    \E id \in TargetIds :
      /\ TreeShown
      /\ IF ~isAdmin THEN Returned("deleteNode", id, "notAdmin")
         ELSE LET previousData == data IN
              IF isRoot(previousData, id)
              THEN /\ nEdits < caps.edits
                   /\ nEdits' = nEdits + 1
                   /\ alert' = "Cannot delete the root node."
                   /\ call' = Called("deleteNode", id, "invalid")
                   /\ io' = NoCall
                   /\ UNCHANGED <<isAdmin, mounted, viewRootId, data, loading, firebaseStatus, loadError,
                                  store, saveTimer, tasks, nFail, nToggles, nSaves, caps, codecVars>>
              ELSE /\ CanEdit
                   /\ Applied("deleteNode", id, deleteNodeTree(data, id),
                              [kind |-> "deleteNode", id |-> id, prev |-> previousData,
                               pc |-> "cascade",
                               stack |-> << [id |-> id, got |-> FALSE, rest |-> <<>>] >>,
                               fix |-> <<>>,
                               \* history: the store held exactly the records of
                               \* the tree when the handler was invoked
                               synced |-> store = storeOf(flattenTree(data, Null))])

\* addParentAbove without the branch for the root: mapTree in every case
addParentAboveTreeMapOnly(previousData, id, nid, name) ==
    mapTree(previousData, [op |-> "wrap", id |-> id, nid |-> nid, name |-> name])

\* the tree addParentAbove computes, or RangeError when the recursion never ends
addParentAboveTree(previousData, id, nid, name) ==
    IF previousData.id = id
    THEN [id |-> nid, name |-> name, children |-> <<previousData>>]
    ELSE mapTree(previousData, [op |-> "wrap", id |-> id, nid |-> nid, name |-> name])

addParentAbove ==
    \E id \in TargetIds, name \in EditNames :
      /\ TreeShown
      /\ IF ~isAdmin THEN Returned("addParentAbove", id, "notAdmin")
         ELSE IF name = "" THEN Returned("addParentAbove", id, "noName")
         ELSE /\ CanEdit
              /\ \E nid \in genId :
                   LET previousData == data
                       updatedData == addParentAboveTree(previousData, id, nid, name)
                   IN IF IsError(updatedData)
                      THEN Returned("addParentAbove", id, "RangeError")
                      ELSE Applied("addParentAbove", id, updatedData,
                                   [kind |-> "addParentAbove", id |-> id,
                                    prev |-> previousData,
                                    todo |-> flattenTree(updatedData, Null)])

(* ---- edit handlers: the persistence part, one await per step ---- *)

\* a catch block that raises the notice and leaves the optimistic tree in place
RolledBackKeep(i, message) ==
    /\ alert' = message
    /\ tasks' = RemoveAt(tasks, i)
    /\ UNCHANGED <<data, saveTimer>>

\* the snapshot with the collapsed flag of every node taken from the tree held now
RECURSIVE flagsFrom(_, _)
flagsFrom(n, cur) ==
    LET now  == findNode(cur, n.id)
        base == IF IsNull(now) THEN n ELSE With(n, "collapsed", flag(now))
    IN IF ~Has(base, "children") THEN base
       ELSE With(base, "children",
                 [k \in 1..Len(n.children) |-> flagsFrom(n.children[k], cur)])

\* a catch block that undoes its own edit and keeps the toggles made since
RolledBackMerge(i, message) ==
    /\ data' = SetState(flagsFrom(tasks[i].prev, data), data)
    /\ saveTimer' = Sched(data', loading, firebaseStatus)
    /\ alert' = message
    /\ tasks' = RemoveAt(tasks, i)

\* catch: setData(snapshot); alert(message); then setMenu(null)
RolledBack(i, message) ==
    /\ data' = SetState(tasks[i].prev, data)
    /\ saveTimer' = Sched(tasks[i].prev, loading, firebaseStatus)
    /\ alert' = message
    /\ tasks' = RemoveAt(tasks, i)

\* the try block ran to its end
Finished(i) ==
    /\ tasks' = RemoveAt(tasks, i)
    /\ UNCHANGED <<data, saveTimer, alert>>

Continue(i, task) ==
    /\ tasks' = Reissued(i, task)
    /\ UNCHANGED <<data, saveTimer, alert>>

addChildStep ==
    \E i \in 1..Len(tasks), ok \in BOOLEAN :
      LET tk == tasks[i]
          parent == findNode(tk.upd, tk.id)
          sent == ok /\ (tk.pc = "update" => updateOk(store, tk.id))
      IN
      /\ tk.kind = "addChild"
      /\ Turn(i)
      /\ Outcome(ok)
      /\ nFail' = Count(ok)
      /\ call' = NoCall
      /\ UNCHANGED <<isAdmin, mounted, viewRootId, loading, firebaseStatus, loadError, nEdits, nToggles, nSaves, caps, codecVars>>
      /\ IF tk.pc = "upsert"
         THEN /\ io' = Io("upsert", tk.child.id)
              /\ store' = IF ok THEN upsert(store, tk.child.id,
                                            [name |-> tk.child.name, parent_id |-> tk.id,
                                             children |-> <<>>, collapsed |-> FALSE])
                          ELSE store
              /\ IF ~ok THEN RolledBack(i, "Error saving child. Please try again.")
                 ELSE IF IsNull(parent) THEN Finished(i)
                 ELSE Continue(i, [tk EXCEPT !.pc = "update"])
         ELSE /\ io' = Io("update", tk.id)
              /\ store' = IF sent
                          THEN update(store, tk.id,
                                      [children |-> [k \in 1..Len(kids(parent)) |->
                                                        kids(parent)[k].id]])
                          ELSE store
              /\ IF sent THEN Finished(i)
                 ELSE RolledBack(i, "Error saving child. Please try again.")

editNodeStep ==
    \E i \in 1..Len(tasks), ok \in BOOLEAN :
      LET tk == tasks[i]
          sent == ok /\ updateOk(store, tk.id)
      IN
      /\ tk.kind = "editNode"
      /\ Turn(i)
      /\ Outcome(ok)
      /\ nFail' = Count(ok)
      /\ call' = NoCall
      /\ io' = Io("update", tk.id)
      /\ store' = IF sent THEN update(store, tk.id, [name |-> tk.name]) ELSE store
      /\ IF sent THEN Finished(i)
         ELSE RolledBack(i, "Error saving changes. Please try again.")
      /\ UNCHANGED <<isAdmin, mounted, viewRootId, loading, firebaseStatus, loadError, nEdits, nToggles, nSaves, caps, codecVars>>

\* deleteNodeAndChildren after a frame returned: the caller's loop goes on to
\* its next child, or on to its own delete
resume(stack) ==
    IF stack = <<>> THEN stack
    ELSE LET top == stack[Len(stack)] IN
         IF top.rest = <<>> THEN stack
         ELSE [stack EXCEPT ![Len(stack)].rest = Tail(top.rest)]
              \o << [id |-> Head(top.rest), got |-> FALSE, rest |-> <<>>] >>

\* one await of deleteNodeAndChildren: getById of the frame on top, or its delete
deleteNodeAndChildren(s, stack, ok) ==
    LET top  == stack[Len(stack)]
        below == SubSeq(stack, 1, Len(stack) - 1)
        node == getById(s, top.id)
    IN IF ~top.got
       THEN [io |-> Io("getById", top.id),
             store |-> s,
             stack |-> IF ~ok THEN stack
                       ELSE IF IsNull(node) THEN resume(below)
                       ELSE resume(below \o << [id |-> top.id, got |-> TRUE,
                                                rest |-> kids(node)] >>)]
       ELSE [io |-> Io("delete", top.id),
             store |-> IF ok THEN delete(s, top.id) ELSE s,
             stack |-> IF ok THEN resume(below) ELSE stack]

\* the records that list id as a child, each with the list it is rewritten to
nodesWithChild(allNodes, id) ==
    LET hit == SelectSeq(allNodes, LAMBDA node :
                   Has(node, "children") /\ id \in Range(node.children))
    IN [k \in 1..Len(hit) |->
          [id |-> hit[k].id,
           children |-> SelectSeq(hit[k].children, LAMBDA childId : childId # id)]]

deleteNodeStep ==
    \E i \in 1..Len(tasks), ok \in BOOLEAN :
      LET tk == tasks[i]
          message == "Error deleting node. Please try again."
      IN
      /\ tk.kind = "deleteNode"
      /\ Turn(i)
      /\ Outcome(ok)
      /\ nFail' = Count(ok)
      /\ call' = NoCall
      /\ UNCHANGED <<isAdmin, mounted, viewRootId, loading, firebaseStatus, loadError, nEdits, nToggles, nSaves, caps, codecVars>>
      /\ CASE tk.pc = "cascade" ->
                LET r == deleteNodeAndChildren(store, tk.stack, ok) IN
                /\ io' = r.io
                /\ store' = r.store
                /\ IF ~ok THEN RolledBack(i, message)
                   ELSE Continue(i, [tk EXCEPT !.stack = r.stack,
                                               !.pc = IF r.stack = <<>> THEN "getAll"
                                                      ELSE "cascade"])
           [] tk.pc = "getAll" ->
                LET fix == nodesWithChild(getAll(store), tk.id) IN
                /\ io' = Io("getAll", Null)
                /\ UNCHANGED store
                /\ IF ~ok THEN RolledBack(i, message)
                   ELSE IF fix = <<>> THEN Finished(i)
                   ELSE Continue(i, [tk EXCEPT !.fix = fix, !.pc = "fix"])
           [] tk.pc = "fix" ->
                LET node == Head(tk.fix)
                    sent == ok /\ updateOk(store, node.id)
                IN
                /\ io' = Io("update", node.id)
                /\ store' = IF sent THEN update(store, node.id, [children |-> node.children])
                            ELSE store
                /\ IF ~sent THEN RolledBack(i, message)
                   ELSE IF Len(tk.fix) > 1 THEN Continue(i, [tk EXCEPT !.fix = Tail(tk.fix)])
                   ELSE Finished(i)

addParentAboveStep ==
    \E i \in 1..Len(tasks), ok \in BOOLEAN :
      LET tk == tasks[i]
          person == Head(tk.todo)
      IN
      /\ tk.kind = "addParentAbove"
      /\ Turn(i)
      /\ Outcome(ok)
      /\ nFail' = Count(ok)
      /\ call' = NoCall
      /\ io' = Io("upsert", person.id)
      /\ store' = IF ok THEN upsert(store, person.id, docFields(person)) ELSE store
      /\ IF ~ok THEN RolledBack(i, "Error adding parent. Please try again.")
         ELSE IF Len(tk.todo) > 1 THEN Continue(i, [tk EXCEPT !.todo = Tail(tk.todo)])
         ELSE Finished(i)
      /\ UNCHANGED <<isAdmin, mounted, viewRootId, loading, firebaseStatus, loadError, nEdits, nToggles, nSaves, caps, codecVars>>

Next ==
    \/ loadDataFromFirebase
    \/ Retry
    \/ TimerFires
    \/ saveDataToFirebase
    \/ toggleCollapse
    \/ addChild
    \/ editNode
    \/ deleteNode
    \/ addParentAbove
    \/ addChildStep
    \/ editNodeStep
    \/ deleteNodeStep
    \/ addParentAboveStep

Spec == Init /\ [][Next]_vars

\* the part of the controller a session reaches without an edit: load, seed,
\* retry, toggleCollapse and the debounced save. A continuation of
\* loadDataFromFirebase that is ready to run does run.
NextLoad ==
    \/ loadDataFromFirebase
    \/ Retry
    \/ TimerFires
    \/ saveDataToFirebase
    \/ toggleCollapse

SpecLoad == Init /\ [][NextLoad]_vars /\ WF_vars(loadDataFromFirebase)

(* ---- view root ---- *)

\* findNode(data, viewRootId) || initialData
viewRoot ==
    LET found == findNode(data, viewRootId) IN
    IF IsNull(found) THEN initialData ELSE found

\* the ids the view buttons pass to setViewToNode: "3" (Focus on Grandparent),
\* the root's id, and the parent of the current view root (expand upward)
ViewTargets ==
    (IF viewRootId # "3" THEN {"3"} ELSE {})
    \cup (IF viewRootId # data.id
          THEN {data.id} \cup
               (LET path == getPathToNode(data, viewRootId) IN
                IF Len(path) > 1 THEN {path[Len(path) - 1].id} ELSE {})
          ELSE {})

setViewToNode ==
    \E id \in ViewTargets :
      /\ TreeShown
      /\ viewRootId' = id
      /\ call' = Called("setViewToNode", id, "applied")
      /\ io' = NoCall
      /\ UNCHANGED <<isAdmin, mounted, data, loading, firebaseStatus, loadError, store,
                     saveTimer, tasks, alert, nFail, nEdits, nToggles, nSaves, caps, codecVars>>

\* a session that loads, navigates, toggles, renames and deletes; no call
\* throws, and the run ends before a save timer fires
BrowseCaps ==
    [edits |-> MaxEdits, toggles |-> MaxToggles + 1, saves |-> 0,
     tasks |-> MaxTasks, fails |-> 0]

InitBrowse ==
    /\ isAdmin \in BOOLEAN
    /\ mounted = TRUE
    /\ viewRootId = "3"
    /\ data = initialData
    /\ loading = TRUE
    /\ firebaseStatus = "checking"
    /\ loadError = Null
    /\ store \in InitStores
    /\ saveTimer = <<>>
    /\ tasks = << [kind |-> "load", pc |-> "test", todo |-> <<>>] >>
    /\ alert = "none"
    /\ io = NoCall
    /\ call = NoCall
    /\ nFail = 0
    /\ nEdits = 0
    /\ nToggles = 0
    /\ nSaves = 0
    /\ caps = BrowseCaps
    /\ CodecIdle

NextBrowse ==
    \/ loadDataFromFirebase
    \/ setViewToNode
    \/ toggleCollapse
    \/ editNode
    \/ editNodeStep
    \/ deleteNode
    \/ deleteNodeStep

SpecBrowse == InitBrowse /\ [][NextBrowse]_vars

(* ---- teardown ---- *)

\* an unmount that skips the cleanup of the debounced-save effect
UnmountKeepTimer ==
    /\ mounted
    /\ mounted' = FALSE
    /\ call' = Called("unmount", Null, IF saveTimer # <<>> THEN "cancelled" ELSE "idle")
    /\ io' = NoCall
    /\ UNCHANGED <<isAdmin, viewRootId, data, loading, firebaseStatus, loadError, store,
                   saveTimer, tasks, alert, nFail, nEdits, nToggles, nSaves, caps, codecVars>>

\* the component is unmounted (App renders it only while a user is signed in):
\* the cleanup of the debounced-save effect clears the pending timer; the
\* async functions in flight go on
Unmount ==
    /\ mounted
    /\ mounted' = FALSE
    /\ saveTimer' = <<>>
    /\ call' = Called("unmount", Null, IF saveTimer # <<>> THEN "cancelled" ELSE "idle")
    /\ io' = NoCall
    /\ UNCHANGED <<isAdmin, viewRootId, data, loading, firebaseStatus, loadError, store,
                   tasks, alert, nFail, nEdits, nToggles, nSaves, caps, codecVars>>

NextTeardown ==
    \/ loadDataFromFirebase
    \/ Retry
    \/ TimerFires
    \/ saveDataToFirebase
    \/ toggleCollapse
    \/ addChild
    \/ editNode
    \/ deleteNode
    \/ addParentAbove
    \/ addChildStep
    \/ editNodeStep
    \/ deleteNodeStep
    \/ addParentAboveStep
    \/ Unmount

SpecTeardown == Init /\ [][NextTeardown]_vars

\* a start-up in which two calls may throw: the seeding of an empty store
\* fails, the debounced save of the sample tree starts, and the retried load
\* fails as well; no edits
RetryCaps ==
    [edits |-> 0, toggles |-> MaxToggles, saves |-> MaxSaves,
     tasks |-> MaxTasks, fails |-> MaxFailures + 1]

InitRetry ==
    /\ isAdmin \in BOOLEAN
    /\ mounted = TRUE
    /\ viewRootId = "3"
    /\ data = initialData
    /\ loading = TRUE
    /\ firebaseStatus = "checking"
    /\ loadError = Null
    /\ store \in InitStores
    /\ saveTimer = <<>>
    /\ tasks = << [kind |-> "load", pc |-> "test", todo |-> <<>>] >>
    /\ alert = "none"
    /\ io = NoCall
    /\ call = NoCall
    /\ nFail = 0
    /\ nEdits = 0
    /\ nToggles = 0
    /\ nSaves = 0
    /\ caps = RetryCaps
    /\ CodecIdle

NextRetry ==
    \/ loadDataFromFirebase
    \/ Retry
    \/ TimerFires
    \/ saveDataToFirebase
    \/ toggleCollapse

SpecRetry == InitRetry /\ [][NextRetry]_vars

\* a session in which the debounced save of one version of the tree can still
\* be in flight when the next version is saved: two saves, no call that throws
RaceCaps ==
    [edits |-> MaxEdits, toggles |-> MaxToggles, saves |-> MaxSaves + 1,
     tasks |-> MaxTasks + 1, fails |-> 0]

\* an admin session right after the load of a stored tree has finished: the
\* tree is held and the first save timer is pending
InitRace ==
    /\ isAdmin = TRUE
    /\ mounted = TRUE
    /\ viewRootId = "3"
    /\ store \in { storeOf(flattenTree(initialData, Null)),
                   storeOf(flattenTree([id |-> "4", name |-> "Ann", collapsed |-> TRUE,
                                        children |-> << [id |-> "6", name |-> "Bob"] >>],
                                       Null)) }
    /\ data = buildTree(getAll(store))
    /\ loading = FALSE
    /\ firebaseStatus = "connected"
    /\ loadError = Null
    /\ saveTimer = Sched(data, loading, firebaseStatus)
    /\ tasks = <<>>
    /\ alert = "none"
    /\ io = Io("getAll", Null)
    /\ call = NoCall
    /\ nFail = 0
    /\ nEdits = 0
    /\ nToggles = 0
    /\ nSaves = 0
    /\ caps = RaceCaps
    /\ CodecIdle

NextRace ==
    \/ TimerFires
    \/ saveDataToFirebase
    \/ toggleCollapse
    \/ addChild
    \/ editNode
    \/ deleteNode
    \/ addParentAbove
    \/ addChildStep
    \/ editNodeStep
    \/ deleteNodeStep
    \/ addParentAboveStep

SpecRace == InitRace /\ [][NextRace]_vars

-----------------------------------------------------------------------------
(* Structural relations used to state the claims *)

\* same ids, names, collapsed flags (absent = false) and child order (absent = empty)
RECURSIVE SameTree(_, _)
SameTree(a, b) ==
    /\ a.id = b.id
    /\ a.name = b.name
    /\ flag(a) = flag(b)
    /\ Len(kids(a)) = Len(kids(b))
    /\ \A i \in 1..Len(kids(a)) : SameTree(kids(a)[i], kids(b)[i])

RECURSIVE Size(_)
Size(n) == 1 + Len(Concat([i \in 1..Len(kids(n)) |-> [j \in 1..Size(kids(n)[i]) |-> 0]]))

\* C1: for every valid tree T, buildTree(flattenTree(T)) is structurally
\* identical to T: same ids, names, collapsed flags (absent counted as false)
\* and child order at every node (absent children counted as empty).
C1_RoundTrip ==
    cpc = "built" => (~IsNull(rebuilt) /\ SameTree(rebuilt, t))

\* a three-node input with a collapsed node, a node without the flag and a
\* leaf without a children field has gone through flatten and build
C1_Witness ==
    /\ cpc = "built"
    /\ Size(t) = 3
    /\ Len(kids(t)) = 2
    /\ ~Has(t, "collapsed")
    /\ Has(kids(t)[1], "collapsed") /\ kids(t)[1].collapsed
    /\ ~Has(kids(t)[2], "children")
    /\ kids(t)[1].name # kids(t)[2].name

-----------------------------------------------------------------------------
(* The controller claims *)

\* every node of a tree as [id, name, collapsed, parent, childIds]
RECURSIVE Rows(_, _)
Rows(n, parent) ==
    { [id |-> n.id, name |-> n.name, collapsed |-> flag(n), parent |-> parent,
       childIds |-> [i \in 1..Len(kids(n)) |-> kids(n)[i].id]] }
    \cup UNION {Rows(kids(n)[i], n.id) : i \in 1..Len(kids(n))}

\* the ids of the subtree rooted at id (empty when no node has the id)
SubtreeIds(tree, id) ==
    LET RECURSIVE down(_)
        down(S) == LET more == S \cup {r.id : r \in {x \in Rows(tree, Null) : x.parent \in S}}
                   IN IF more = S THEN S ELSE down(more)
    IN IF id \in idsOf(tree) THEN down({id}) ELSE {}

EditOps == {"addChild", "editNode", "deleteNode", "addParentAbove"}

Notices ==
    { "Error saving child. Please try again.",
      "Error saving changes. Please try again.",
      "Error deleting node. Please try again.",
      "Error adding parent. Please try again." }

\* this step is task i's last one
Ends(i) == tasks' = RemoveAt(tasks, i)

\* the persistence call this step issued was rejected
CallFailed ==
    /\ io' # NoCall
    /\ \/ nFail' > nFail
       \/ io'.op = "update" /\ io'.id \notin DOMAIN store

\* C2 (as claimed): addParentAbove on a present non-root target puts a new node
\* with a fresh id in the target's place in its parent's child list, siblings
\* and their order unchanged, the target its only child, the target's subtree
\* unchanged.
C2_SplicesAboveNonRoot ==
    [][ ( /\ call'.op = "addParentAbove"
          /\ isAdmin
          /\ call'.id \in idsOf(data)
          /\ call'.id # data.id )
        => \E nid \in idsOf(data') \ idsOf(data) :
             LET old == Rows(data, Null)
                 tgt == CHOOSE r \in old : r.id = call'.id
             IN Rows(data', Null) =
                  { IF r.id = tgt.id THEN [r EXCEPT !.parent = nid]
                    ELSE IF r.id = tgt.parent
                    THEN [r EXCEPT !.childIds =
                            [k \in 1..Len(r.childIds) |->
                               IF r.childIds[k] = tgt.id THEN nid ELSE r.childIds[k]]]
                    ELSE r : r \in old }
                  \cup { [id |-> nid, name |-> "Zed", collapsed |-> FALSE,
                          parent |-> tgt.parent, childIds |-> <<tgt.id>>] }
      ]_vars

\* C3: when the persistence step of addChild, editNode, deleteNode or
\* addParentAbove fails, the held tree is set back to the snapshot taken just
\* before that edit was applied, and a failure notice is raised. The snapshot
\* a task carries is the tree held when its handler was invoked.
C3_RollbackRestoresSnapshot ==
    [][ /\ \A i \in 1..Len(tasks) :
             (tasks[i].kind \in EditOps /\ Ends(i) /\ CallFailed)
             => (data' = tasks[i].prev /\ alert' \in Notices)
        /\ (call'.op \in EditOps /\ call'.result = "applied")
             => (Len(tasks') = Len(tasks) + 1 /\ tasks'[Len(tasks')].prev = data)
      ]_vars

\* an addParentAbove at the root was applied, its upsert was rejected, and the
\* tree is the sample root again
C3_Witness ==
    /\ alert = "Error adding parent. Please try again."
    /\ io.op = "upsert"
    /\ nFail = 1
    /\ data.id = "1"
    /\ tasks = <<>>

C5_DeletePrunesSubtree ==
    [][ ( /\ call'.op = "deleteNode"
          /\ isAdmin
          /\ call'.id \in idsOf(data)
          /\ call'.id # data.id )
        => LET gone == SubtreeIds(data, call'.id) IN
           Rows(data', Null) =
             { [r EXCEPT !.childIds = SelectSeq(r.childIds, LAMBDA c : c \notin gone)] :
               r \in {x \in Rows(data, Null) : x.id \notin gone} }
      ]_vars

\* leaf "6" of the sample tree was deleted: "4" is left with the one child "5"
C5_Witness ==
    /\ call.op = "deleteNode"
    /\ call.id = "6"
    /\ call.result = "applied"
    /\ \E r \in Rows(data, Null) : r.id = "4" /\ r.childIds = <<"5">>
    /\ Cardinality(idsOf(data)) = 7

\* C6 (as claimed): when deleteNode on a non-root node finishes without a
\* persistence error, having started from a store that held exactly the
\* records of the held tree, the store holds no record of the target or of a
\* descendant, and no record lists the target as a child.
C6_CascadeLeavesNoRecord ==
    [][ \A i \in 1..Len(tasks) :
          ( /\ tasks[i].kind = "deleteNode"
            /\ tasks[i].synced
            /\ Ends(i)
            /\ ~CallFailed )
          => ( /\ SubtreeIds(tasks[i].prev, tasks[i].id) \cap DOMAIN store' = {}
               /\ \A d \in DOMAIN store' :
                    tasks[i].id \notin Range(store'[d].children) )
      ]_vars

\* C7: addChild, editNode, deleteNode and addParentAbove invoked in a session
\* without the admin capability leave the held tree unchanged and issue no
\* call to the persistence collaborator.
C7_NonAdminEditsRejected ==
    [][ (~isAdmin /\ call'.op \in EditOps)
        => ( /\ data' = data
             /\ io' = NoCall
             /\ store' = store
             /\ tasks' = tasks
             /\ call'.result = "notAdmin" )
      ]_vars

\* a session without the capability invoked deleteNode on an inner node
C7_Witness ==
    /\ ~isAdmin
    /\ call.op = "deleteNode"
    /\ call.id = "4"
    /\ "4" \in idsOf(data)
    /\ ~loading

\* C8 (as claimed): in a session without the mutate privilege no sequence of
\* controller operations causes an upsert, update or delete call.
C8_NonAdminNeverWrites ==
    ~isAdmin => ~IsWrite(io)

\* the store holds exactly the records of the sample tree, and the held tree
\* is the sample tree, fully loaded without an error
Seeded ==
    /\ ~loading
    /\ loadError = Null
    /\ ~IsNull(data) /\ SameTree(data, initialData)
    /\ store = storeOf(flattenTree(initialData, Null))

\* C9: on startup with a reachable backend (no call throws) and an empty store
\* the controller seeds the store with the records of the sample tree,
\* reloads, and reaches loading = false, no load error, the sample tree held
\* and exactly the sample records stored.
C9_EmptyStoreIsSeeded ==
    (store = <<>> /\ loading /\ nFail = 0) ~> (nFail > 0 \/ Seeded)

\* the eighth record of the sample has just been upserted into a store that
\* started empty, and the reload has begun
C9_Witness ==
    /\ io = Io("upsert", "8")
    /\ loading
    /\ firebaseStatus = "checking"
    /\ nFail = 0
    /\ nSaves = 0
    /\ store = storeOf(flattenTree(initialData, Null))
    /\ \E i \in 1..Len(tasks) : tasks[i].kind = "load" /\ tasks[i].pc = "test"

\* C10 (as claimed): a load that reads a non-empty record set without a
\* null-parent record goes on to seed: the sample tree is flattened and its
\* records are upserted, as for an empty store.
C10_RootlessStoreIsSeeded ==
    [][ \A i \in 1..Len(tasks) :
          ( /\ tasks[i].kind = "load"
            /\ tasks[i].pc = "get"
            /\ io'.op = "getAll"
            /\ nFail' = nFail
            /\ tasks' # tasks
            /\ Len(getAll(store)) > 0
            /\ \A d \in DOMAIN store : store[d].parent_id # Null )
          => ( /\ Len(tasks') = Len(tasks)
               /\ tasks'[Len(tasks')].kind = "load"
               /\ tasks'[Len(tasks')].pc = "seed"
               /\ tasks'[Len(tasks')].todo = flattenTree(initialData, Null) )
      ]_vars

-----------------------------------------------------------------------------
(* The record-set claims *)

\* the ids that have a record
HaveIds(flatData) == {flatData[k].id : k \in 1..Len(flatData)}

\* the record of an id, in a set that holds each id once
RecordOf(flatData, id) == flatData[CHOOSE k \in 1..Len(flatData) : flatData[k].id = id]

\* C11: buildTree on a record set with children entries that name no record
\* returns, without failing, a tree in which every node carries the name and
\* flag of its record and, as children, exactly the entries of its record's
\* children list that name a record, in their original order.
C11_DanglingChildrenOmitted ==
    (cpc = "rebuilt" /\ Roots(flat) # {})
    => /\ ~IsError(rebuilt)
       /\ ~IsNull(rebuilt)
       /\ \A r \in Rows(rebuilt, Null) :
            /\ r.id \in HaveIds(flat)
            /\ r.name = RecordOf(flat, r.id).name
            /\ r.collapsed = RecordOf(flat, r.id).collapsed
            /\ r.childIds = SelectSeq(RecordOf(flat, r.id).children,
                                      LAMBDA c : c \in HaveIds(flat))

\* the root's record lists a missing id between two children that have
\* records: the rebuilt root has these two, in order
C11_Witness ==
    /\ cpc = "rebuilt"
    /\ Len(flat) = 3
    /\ Len(flat[1].children) = 3
    /\ flat[1].children[2] = MissingId
    /\ flat[1].parent_id = Null
    /\ ~IsNull(rebuilt)
    /\ Len(kids(rebuilt)) = 2
    /\ kids(rebuilt)[1].id = flat[1].children[1]
    /\ kids(rebuilt)[2].id = flat[1].children[3]

\* C12: buildTree returns null exactly when the input is empty or no record
\* has a null parent_id; otherwise it returns the node built for a record
\* whose parent_id is null.
C12_NullIffNoRoot ==
    cpc \in {"built", "rebuilt"}
    => /\ IsNull(rebuilt) <=> (Len(flat) = 0 \/ Roots(flat) = {})
       /\ ~IsNull(rebuilt)
            => \E k \in Roots(flat) :
                 /\ rebuilt.id = flat[k].id
                 /\ rebuilt.name = flat[k].name
                 /\ flag(rebuilt) = flat[k].collapsed

\* a record set that is not empty and has no null-parent record gave null
C12_Witness ==
    /\ cpc = "rebuilt"
    /\ Len(flat) = 2
    /\ Roots(flat) = {}
    /\ IsNull(rebuilt)

\* the ids of a tree, parent before children, children left to right
RECURSIVE PreOrder(_)
PreOrder(n) == <<n.id>> \o Concat([i \in 1..Len(kids(n)) |-> PreOrder(kids(n)[i])])

\* C16: flattenTree(T) emits one record per node in pre-order; the root's
\* record is the only one with a null parent_id, every other record's
\* parent_id is the id of its node's parent, each children list is the ordered
\* list of the node's child ids, and every non-root id is listed as a child
\* exactly once, by another record.
C16_FlattenPreOrder ==
    cpc \in {"flat", "built"}
    => /\ [k \in 1..Len(flat) |-> flat[k].id] = PreOrder(t)
       /\ Len(flat) = Cardinality(idsOf(t))
       /\ Roots(flat) = {1}
       /\ \A k \in 1..Len(flat) :
            \E r \in Rows(t, Null) :
              /\ r.id = flat[k].id
              /\ flat[k].parent_id = r.parent
              /\ flat[k].children = r.childIds
              /\ flat[k].name = r.name
       /\ \A k \in 2..Len(flat) :
            /\ Cardinality({ <<j, i>> \in (1..Len(flat)) \X (1..Len(flat)) :
                               /\ i <= Len(flat[j].children)
                               /\ flat[j].children[i] = flat[k].id }) = 1
            /\ flat[k].id \notin Range(flat[k].children)

\* a chain of three generations was flattened: each record names the record
\* before it as parent
C16_Witness ==
    /\ cpc = "flat"
    /\ Len(flat) = 3
    /\ flat[1].parent_id = Null
    /\ flat[2].parent_id = flat[1].id
    /\ flat[3].parent_id = flat[2].id
    /\ flat[2].children = <<flat[3].id>>

-----------------------------------------------------------------------------
(* The edit claims *)

\* the stored records whose parent reference is null
NullParents(s) == {d \in DOMAIN s : s[d].parent_id = Null}

\* C13: addParentAbove with the root's id yields a tree whose root is a new
\* node with a fresh id and the given name and whose only child is the old
\* root, subtree unchanged; when its persistence has succeeded the store has
\* exactly one null-parent record, the new root's, and the old root's record
\* names the new root as its parent.
C13_NewRootAboveRoot ==
    [][ /\ ( /\ call'.op = "addParentAbove"
             /\ isAdmin
             /\ call'.id = data.id )
           => /\ call'.result = "applied"
              /\ data'.id \notin idsOf(data)
              /\ data'.id \notin DOMAIN store
              /\ data'.name \in EditNames
              /\ kids(data') = <<data>>
        /\ \A i \in 1..Len(tasks) :
             ( /\ tasks[i].kind = "addParentAbove"
               /\ tasks[i].id = tasks[i].prev.id
               /\ Ends(i)
               /\ ~CallFailed )
             => \E nid \in DOMAIN store' :
                  /\ nid \notin idsOf(tasks[i].prev)
                  /\ NullParents(store') = {nid}
                  /\ store'[nid].children = <<tasks[i].prev.id>>
                  /\ tasks[i].prev.id \in DOMAIN store'
                  /\ store'[tasks[i].prev.id].parent_id = nid
      ]_vars

\* the sample tree got a new root and every record of the new tree is stored
C13_Witness ==
    /\ call.op = "none"
    /\ tasks = <<>>
    /\ alert = "none"
    /\ kids(data) = <<initialData>>
    /\ data.id \in DOMAIN store
    /\ store[data.id].parent_id = Null
    /\ store["1"].parent_id = data.id
    /\ io = Io("upsert", "8")

\* C14: addChild on a present parent yields a tree in which the parent's
\* children are its former children, in order, followed by one new leaf with a
\* fresh id and the given name, every other node unchanged; when its
\* persistence has succeeded the store holds the child's record with
\* parent_id = parentId and no children, and the parent's record lists the
\* parent's in-memory child ids in order.
C14_AddChildAppendsLeaf ==
    [][ /\ ( /\ call'.op = "addChild"
             /\ isAdmin
             /\ call'.id \in idsOf(data) )
           => \E nid \in idsOf(data') \ (idsOf(data) \cup DOMAIN store) :
                Rows(data', Null) =
                  { IF r.id = call'.id
                    THEN [r EXCEPT !.childIds = Append(r.childIds, nid)]
                    ELSE r : r \in Rows(data, Null) }
                  \cup { [id |-> nid, name |-> "Zed", collapsed |-> FALSE,
                          parent |-> call'.id, childIds |-> <<>>] }
        /\ \A i \in 1..Len(tasks) :
             ( /\ tasks[i].kind = "addChild"
               /\ tasks[i].id \in idsOf(tasks[i].prev)
               /\ Ends(i)
               /\ ~CallFailed )
             => LET nid == tasks[i].child.id
                    parent == CHOOSE r \in Rows(tasks[i].upd, Null) : r.id = tasks[i].id
                IN /\ nid \in DOMAIN store'
                   /\ store'[nid].parent_id = tasks[i].id
                   /\ store'[nid].children = <<>>
                   /\ store'[nid].name = tasks[i].child.name
                   /\ tasks[i].id \in DOMAIN store'
                   /\ store'[tasks[i].id].children = parent.childIds
                   /\ parent.childIds[Len(parent.childIds)] = nid
      ]_vars

\* node "4" of the sample tree got a third child, and both writes returned
C14_Witness ==
    /\ tasks = <<>>
    /\ alert = "none"
    /\ io = Io("update", "4")
    /\ nFail = 0
    /\ Len(store["4"].children) = 3
    /\ store["4"].children[1] = "5"
    /\ store["4"].children[2] = "6"
    /\ store[store["4"].children[3]].parent_id = "4"
    /\ \E r \in Rows(data, Null) : r.id = "4" /\ r.childIds = store["4"].children

\* C15: after any sequence of controller operations from a valid tree, with
\* fresh ids distinct from the ids in use, no id occurs at two nodes of the
\* held tree and the held tree has exactly one root.
C15_HeldTreeHasUniqueIds ==
    /\ Len(PreOrder(data)) = Cardinality(idsOf(data))
    /\ Cardinality({r \in Rows(data, Null) : r.parent = Null}) = 1
    /\ \A r \in Rows(data, Null) : r.parent = Null <=> r.id = data.id

\* a child was added to the loaded sample tree: nine nodes, nine ids
C15_Witness ==
    /\ call.op = "addChild"
    /\ call.result = "applied"
    /\ Len(PreOrder(data)) = 9
    /\ Cardinality(idsOf(data)) = 9
    /\ data.id = "1"

-----------------------------------------------------------------------------
(* The optimistic-update and debounce claims *)

\* this step is the return of the call task i was waiting for
Stepped(i) ==
    /\ call' = NoCall
    /\ io' # NoCall
    /\ \/ Ends(i)
       \/ /\ Len(tasks') = Len(tasks)
          /\ RemoveAt(tasks', Len(tasks')) = RemoveAt(tasks, i)
          /\ tasks'[Len(tasks')].kind = tasks[i].kind

\* an edit handler is invoked with input that passes its validation: the
\* session has the capability, a name was typed in, the target is in the tree
\* and is not the root when the edit is a delete
ValidEdit ==
    /\ call'.op \in EditOps
    /\ isAdmin
    /\ call'.id \in idsOf(data)
    /\ ~(call'.op = "deleteNode" /\ call'.id = data.id)

\* C17 (as claimed): each edit that passes validation is applied, the held tree
\* becoming the complete post-edit tree before the first persistence call, and
\* is then either confirmed, the held tree staying as it is while every call
\* succeeds, or rolled back to the complete pre-edit tree on the first call
\* that fails.
C17_AppliedThenSettled ==
    [][ /\ ValidEdit
           => /\ call'.result = "applied"
              /\ io' = NoCall
              /\ store' = store
              /\ Len(tasks') = Len(tasks) + 1
              /\ tasks'[Len(tasks')].kind = call'.op
              /\ tasks'[Len(tasks')].prev = data
        /\ (ValidEdit /\ call'.op = "editNode")
           => Rows(data', Null) =
                { IF r.id = call'.id THEN [r EXCEPT !.name = "Zed"] ELSE r :
                  r \in Rows(data, Null) }
        /\ \A i \in 1..Len(tasks) :
             (tasks[i].kind \in EditOps /\ Stepped(i))
             => IF CallFailed
                THEN Ends(i) /\ data' = tasks[i].prev
                ELSE data' = data
      ]_vars

\* C18: every change of the held tree cancels the pending save timer and
\* starts a new one, at most one timer is pending at any time, no full-tree
\* save starts in the step of an edit, and a save starts only by consuming
\* the one pending timer, so edits that follow one another before the timer
\* fires are followed by one save.
C18_TrailingEdgeDebounce ==
    [][ /\ Len(saveTimer) <= 1
        /\ Len(saveTimer') <= 1
        /\ data' # data => saveTimer' = <<data'>>
        /\ (data' # data \/ call' # NoCall) => nSaves' = nSaves
        /\ (data' # data \/ call' # NoCall)
           => Len(SelectSeq(tasks', LAMBDA tk : tk.kind = "save"))
              <= Len(SelectSeq(tasks, LAMBDA tk : tk.kind = "save"))
        /\ nSaves' # nSaves
           => /\ nSaves' = nSaves + 1
              /\ saveTimer # <<>>
              /\ saveTimer' = <<>>
              /\ Len(SelectSeq(tasks', LAMBDA tk : tk.kind = "save"))
                 = Len(SelectSeq(tasks, LAMBDA tk : tk.kind = "save")) + 1
      ]_vars

\* a toggle and a rename followed the load before any timer fired, and then
\* the one save started: it is the first save of the run
C18_Witness ==
    /\ nToggles = 1
    /\ nEdits = 1
    /\ nSaves = 1
    /\ io = NoCall
    /\ call = NoCall
    /\ saveTimer = <<>>
    /\ Len(tasks) = 2
    /\ tasks[1].kind = "editNode"
    /\ tasks[2].kind = "save"
    /\ Len(tasks[2].todo) = 8
    /\ \E r \in Rows(data, Null) : r.id = "4" /\ r.collapsed /\ r.name = "Zed"

\* C19: when a debounced save fires, the records it goes on to upsert are
\* flattenTree of the tree held at that moment: the tree the pending timer
\* carries is always the held tree, never an older one.
C19_SaveWritesHeldTree ==
    [][ /\ saveTimer # <<>> => saveTimer[1] = data
        /\ nSaves' # nSaves
           => /\ tasks'[Len(tasks')].kind = "save"
              /\ tasks'[Len(tasks')].todo = flattenTree(data, Null)
              /\ data' = data
        /\ \A i \in 1..Len(tasks) :
             (tasks[i].kind = "save" /\ Stepped(i))
             => /\ io' = Io("upsert", Head(tasks[i].todo).id)
                /\ ~CallFailed => store'[io'.id] = docFields(Head(tasks[i].todo))
                /\ ~Ends(i) => tasks'[Len(tasks')].todo = Tail(tasks[i].todo)
      ]_vars

\* the save of a tree in which a leaf was renamed has started and has written
\* the record of that leaf
C19_Witness ==
    /\ nEdits = 1
    /\ nSaves = 1
    /\ io = Io("upsert", "6")
    /\ nFail = 0
    /\ \E r \in Rows(data, Null) : r.id = "6" /\ r.name = "Zed"
    /\ store["6"].name = "Zed"
    /\ \E i \in 1..Len(tasks) : tasks[i].kind = "save" /\ tasks[i].todo[1].id = "7"

\* the save with the given ordinal is still running
Saving(n) == \E i \in 1..Len(tasks) : tasks[i].kind = "save" /\ tasks[i].n = n

\* C20: when the tree was changed once, by one edit or one toggle, and the
\* second save, the one that follows the change, has completed, with no call
\* that threw and no change of the tree since its timer fired, the tree built
\* from all stored records is the held tree; this holds whether the first save
\* had finished before the change, was running when the change was made, or is
\* still running now and writing its stale records
C20_LaterSaveWins ==
    ( /\ nSaves = 2
      /\ ~Saving(2)
      /\ saveTimer = <<>>
      /\ nFail = 0
      /\ nEdits + nToggles = 1 )
    => /\ ~IsNull(buildTree(getAll(store)))
       /\ SameTree(buildTree(getAll(store)), data)

\* a leaf was deleted while the save of the loaded tree was running; the save
\* of the pruned tree has completed, the earlier save is still running and has
\* its stale record of the deleted leaf left to write
C20_Witness ==
    /\ nSaves = 2
    /\ ~Saving(2)
    /\ saveTimer = <<>>
    /\ nFail = 0
    /\ nEdits = 1
    /\ nToggles = 0
    /\ Size(data) = 1
    /\ \E i \in 1..Len(tasks) :
         /\ tasks[i].kind = "save"
         /\ tasks[i].n = 1
         /\ Head(tasks[i].todo).id = "6"
    /\ store["4"].children = <<>>
    /\ SameTree(buildTree(getAll(store)), data)

-----------------------------------------------------------------------------
(* The teardown claim *)

\* C21: the unmount of the component leaves no save timer pending, and from
\* then on no timer is set and no full-tree save is started, whatever the
\* async functions still in flight go on to do.
C21_TeardownCancelsSave ==
    [][ /\ (mounted /\ ~mounted') => (saveTimer' = <<>> /\ nSaves' = nSaves)
        /\ ~mounted => (~mounted' /\ saveTimer' = <<>> /\ nSaves' = nSaves)
      ]_vars

\* the component has just been unmounted while a rename was in flight and the
\* timer set by that rename was pending: the timer is gone, no save has started
C21_Witness ==
    /\ ~mounted
    /\ call = Called("unmount", Null, "cancelled")
    /\ saveTimer = <<>>
    /\ nSaves = 0
    /\ nEdits = 1
    /\ Len(tasks) = 1
    /\ tasks[1].kind = "editNode"

-----------------------------------------------------------------------------
(* The frame claims *)

\* the tree a finished load left held, in a run without an edit or a save
Loaded ==
    LET treeData == buildTree(getAll(store)) IN
    IF IsNull(treeData) THEN initialData ELSE treeData

\* C22: editNode(id, name) and toggleCollapse(id) keep the ids, every node's
\* parent and every child order, and change one field of the node with the
\* given id and nothing else: editNode its name, toggleCollapse its collapsed
\* flag, negated with an absent flag read as false; a second toggle of the
\* same node gives back the tree held before the first.
C22_OneFieldOfOneNode ==
    [][ /\ (call'.op = "editNode" /\ call'.result = "applied")
           => /\ Rows(data', Null) =
                   { IF r.id = call'.id
                     THEN [r EXCEPT !.name = tasks'[Len(tasks')].name] ELSE r :
                     r \in Rows(data, Null) }
              /\ PreOrder(data') = PreOrder(data)
        /\ call'.op = "toggleCollapse"
           => /\ Rows(data', Null) =
                   { IF r.id = call'.id THEN [r EXCEPT !.collapsed = ~r.collapsed] ELSE r :
                     r \in Rows(data, Null) }
              /\ PreOrder(data') = PreOrder(data)
        /\ call'.op = "toggleCollapse"
           => SameTree(mapTree(data', [op |-> "toggle", id |-> call'.id]), data)
        /\ ( /\ call.op = "toggleCollapse"
             /\ call'.op = "toggleCollapse"
             /\ call'.id = call.id
             /\ nToggles = 1
             /\ nEdits = 0
             /\ tasks = <<>> )
           => SameTree(data', Loaded)
      ]_vars

\* node "4" of the sample tree, which has no collapsed field, was toggled
\* twice: it has the field now, cleared, and the tree is the sample tree
C22_Witness ==
    /\ nToggles = 2
    /\ nEdits = 0
    /\ call = Called("toggleCollapse", "4", "applied")
    /\ store = <<>> \/ \A d \in DOMAIN store : store[d].parent_id # Null
    /\ findNode(data, "4").collapsed = FALSE
    /\ SameTree(data, initialData)
    /\ data # initialData

-----------------------------------------------------------------------------
(* The library claims *)

\* C23: mapTree(T, identity) and updateTree(T, identity) return a tree with
\* the ids, names, flags and child order of T at every node, and T is what it
\* was.
C23_IdentityLaw ==
    (cpc \in {"mapped", "updated"} /\ call.fn.op = "identity")
    => /\ ~IsNull(rebuilt)
       /\ ~IsError(rebuilt)
       /\ SameTree(rebuilt, t)
       /\ Rows(rebuilt, Null) = Rows(t, Null)
       /\ PreOrder(rebuilt) = PreOrder(t)

\* updateTree with the identity went over a three-node tree whose root is
\* collapsed and has a leaf without a children field
C23_Witness ==
    /\ cpc = "updated"
    /\ call.fn.op = "identity"
    /\ Size(t) = 3
    /\ flag(t)
    /\ \E i \in 1..Len(kids(t)) : ~Has(kids(t)[i], "children")
    /\ SameTree(rebuilt, t)

\* C24: when the id is in the tree, getPathToNode(root, id) starts at the
\* root, each element is a child of the one before, and its last element is
\* the node findNode(root, id) returns, which has the id (ids 1,2,3,7,8 for
\* "8" in the sample tree); when the id is not in the tree getPathToNode
\* returns the empty sequence and findNode returns null.
C24_PathEndsAtFoundNode ==
    cpc = "found"
    => /\ call.id \in idsOf(t)
          => /\ ~IsNull(rebuilt)
             /\ rebuilt.id = call.id
             /\ Len(flat) >= 1
             /\ flat[1] = t
             /\ flat[Len(flat)] = rebuilt
             /\ \A k \in 1..(Len(flat) - 1) : flat[k + 1] \in Range(kids(flat[k]))
       /\ call.id \notin idsOf(t) => (IsNull(rebuilt) /\ flat = <<>>)
       /\ (t = initialData /\ call.id = "8")
          => [k \in 1..Len(flat) |-> flat[k].id] = <<"1", "2", "3", "7", "8">>

\* "8" was looked up in the sample tree: it is under the second child of "3"
C24_Witness ==
    /\ cpc = "found"
    /\ t = initialData
    /\ call.id = "8"
    /\ Len(flat) = 5
    /\ flat[4].id = "7"
    /\ rebuilt = [id |-> "8", name |-> "Child 2.1"]

-----------------------------------------------------------------------------
(* The absent-id claim *)

\* C25 (as claimed): addChild, editNode, toggleCollapse and deleteNode invoked
\* with an id that no node of the held tree has leave the held tree equal in
\* value and are not errors: the handler goes through, and while no
\* persistence call throws for a reason of the backend its persistence part
\* raises no notice and leaves the held tree as it is.
C25_AbsentIdIsNoError ==
    [][ /\ ( /\ call'.op \in {"addChild", "editNode", "deleteNode", "toggleCollapse"}
             /\ isAdmin
             /\ call'.id \notin idsOf(data) )
           => /\ call'.result = "applied"
              /\ SameTree(data', data)
              /\ alert' = alert
        /\ \A i \in 1..Len(tasks) :
             ( /\ tasks[i].kind \in {"addChild", "editNode", "deleteNode"}
               /\ tasks[i].id \notin idsOf(tasks[i].prev)
               /\ Stepped(i)
               /\ nFail' = nFail )
             => /\ alert' = alert
                /\ data' = data
      ]_vars

-----------------------------------------------------------------------------
(* The concurrent-edit claims *)

\* a node's collapsed flag in the tree held now is not the one in the snapshot
\* of task i: the node was toggled after the task's edit was applied
ToggledSince(i) ==
    { r.id : r \in { x \in Rows(data, Null) :
                      \E q \in Rows(tasks[i].prev, Null) :
                        q.id = x.id /\ q.collapsed # x.collapsed } }

\* C26 (as claimed): when edit A's persistence fails after a change B was
\* applied while A was in flight, the held tree after A's rollback still has
\* B's change: a node toggled in between keeps its new flag.
C26_RollbackKeepsLaterChange ==
    [][ \A i \in 1..Len(tasks) :
          (tasks[i].kind \in EditOps /\ Ends(i) /\ CallFailed)
          => \A r \in Rows(data, Null), q \in Rows(data', Null) :
               r.id = q.id => q.collapsed = r.collapsed
      ]_vars

\* C26 (amended): when edit A's persistence fails after a change B was applied
\* while A was in flight, A's rollback sets the held tree to the snapshot
\* taken when A was invoked, which B is not part of: a node toggled in between
\* has the flag it had before the toggle, and the save timer set by the
\* rollback carries that tree.
C26_RollbackDropsLaterChange ==
    [][ \A i \in 1..Len(tasks) :
          (tasks[i].kind \in EditOps /\ Ends(i) /\ CallFailed)
          => /\ data' = tasks[i].prev
             /\ saveTimer' = <<tasks[i].prev>>
             /\ \A id \in ToggledSince(i) :
                  \E r \in Rows(data, Null), q \in Rows(data', Null) :
                    r.id = id /\ q.id = id /\ q.collapsed # r.collapsed
      ]_vars

\* "4" was toggled while a rename was in flight and the save of the toggled
\* tree started; the rename was then rejected: the held tree has "4" expanded
\* again while the running save still carries it collapsed
C26_Witness ==
    /\ alert = "Error saving changes. Please try again."
    /\ io.op = "update"
    /\ nFail = 1
    /\ nToggles = 1
    /\ nEdits = 1
    /\ \E i \in 1..Len(tasks) :
         /\ tasks[i].kind = "save"
         /\ \E k \in 1..Len(tasks[i].todo) :
              tasks[i].todo[k].id = "4" /\ tasks[i].todo[k].collapsed
    /\ \E r \in Rows(data, Null) : r.id = "4" /\ ~r.collapsed

-----------------------------------------------------------------------------
(* The termination claim *)

\* C27 (as claimed): the tree computation of every handler returns a tree; in
\* particular addParentAbove on a node that is in the tree and is not its root
\* returns from mapTree, and the held tree becomes the tree it computed.
C27_TreeComputationReturns ==
    [][ /\ call'.op \in EditOps \cup {"toggleCollapse"} => call'.result # "RangeError"
        /\ ( /\ call'.op = "addParentAbove"
             /\ isAdmin
             /\ call'.id \in idsOf(data) \ {data.id} )
           => /\ call'.result = "applied"
              /\ Cardinality(idsOf(data')) = Cardinality(idsOf(data)) + 1
      ]_vars

-----------------------------------------------------------------------------
(* The partial-failure claim *)

\* C28 (as claimed): when an edit's persistence has failed and the controller
\* has rolled back, and the save that the rollback scheduled has then written
\* all its records, a reload builds the rolled-back held tree: the tree built
\* from all stored records is the held tree, whatever the failed edit wrote
\* before its rejected call.
C28_ReloadGivesRolledBackTree ==
    [][ \A i \in 1..Len(tasks) :
          ( /\ tasks[i].kind = "save"
            /\ Ends(i)
            /\ ~CallFailed
            /\ Len(tasks) = 1
            /\ saveTimer = <<>>
            /\ alert \in Notices )
          => /\ ~IsNull(buildTree(getAll(store')))
             /\ SameTree(buildTree(getAll(store')), data')
      ]_vars

-----------------------------------------------------------------------------
(* The view-root claim *)

\* C29 (as claimed): whenever the tree is shown, the sub-tree handed to the
\* renderer as view root is a node of the held tree: looking its id up in the
\* held tree finds exactly that sub-tree, also after the node named by
\* viewRootId was deleted and after a load of a tree without that id.
C29_ViewRootInHeldTree ==
    TreeShown =>
      /\ ~IsNull(findNode(data, viewRoot.id))
      /\ findNode(data, viewRoot.id) = viewRoot

-----------------------------------------------------------------------------
(* The save-guard claim *)

SaveInFlight == \E i \in 1..Len(tasks) : tasks[i].kind = "save"

\* C30 (as claimed): no full-tree save is scheduled or started while loading
\* is true or while the backend status is not "connected", and after a failed
\* load, while the status is "error" and the sample tree is the held tree,
\* nothing is written to the store.
C30_NoSaveAndNoWriteAfterFailedLoad ==
    [][ /\ saveTimer' # <<>> => ~loading' /\ firebaseStatus' = "connected"
        /\ nSaves' # nSaves => ~loading /\ firebaseStatus = "connected"
        /\ firebaseStatus = "error" /\ data = initialData => store' = store
      ]_vars

\* C30 (amended): no full-tree save is scheduled or started while loading is
\* true or while the backend status is not "connected": a pending save timer
\* exists only in a state that is not loading and is connected, and a save
\* starts only from such a state.  While the status is "error" nothing is
\* written to the store unless a save that started earlier, while connected,
\* is still running; such a save goes on writing its records.
C30_NoSaveUnlessLoadedAndConnected ==
    [][ /\ saveTimer' # <<>> => ~loading' /\ firebaseStatus' = "connected"
        /\ nSaves' # nSaves => ~loading /\ firebaseStatus = "connected"
        /\ SaveInFlight' /\ ~SaveInFlight => ~loading /\ firebaseStatus = "connected"
        /\ firebaseStatus = "error" /\ ~SaveInFlight => store' = store
      ]_vars

\* a retried load has failed: the error screen is up with status "error" and
\* the sample tree is the held tree; the save that started after the failed
\* seeding is still running, and no further save is pending or was started
C30_Witness ==
    /\ mounted
    /\ firebaseStatus = "error"
    /\ loadError # Null
    /\ ~loading
    /\ data = initialData
    /\ SaveInFlight
    /\ saveTimer = <<>>
    /\ nSaves = 1
    /\ nFail = 2

====
